---- MODULE Spec2Model ----
(***************************************************************************)
(* Financial calculation engine of Le-App: the generic calculators of      *)
(* src/lib/financial/calculations.ts and the Swedish calculators of        *)
(* src/lib/api/properties.ts.                                              *)
(*                                                                         *)
(* A JavaScript number is modelled as an exact fraction [n, d] in lowest   *)
(* terms with d > 0.  The three non-finite doubles are the fractions with  *)
(* d = 0: [1,0] is Infinity, [-1,0] is -Infinity and [0,0] is NaN, so that  *)
(* x/0 and 0/0 come out as JavaScript computes them.  Rounding error of    *)
(* binary floating point is not modelled.                                  *)
(***************************************************************************)
EXTENDS Integers, Sequences, FiniteSets, TLC

\* the function called, its parameter record, pc = "call" before the call and
\* "done" after it, and the outcome (a result or the error thrown)
VARIABLES fn, args, pc, res

\* the compare screen: the ['properties'] entry of the query cache, the
\* invocations of handleAddProperty, Date.now(), the rows of the properties
\* table, the realtime events on their way to this client, for each
\* invocation the cache as it would be had the invocation never run, and the
\* url and error state of the screen
VARIABLES cache, adds, now, rows, events, without, url, error

\* the properties table: the enrichment_status column of one row and the
\* calls of updateFinancialData on it
VARIABLES column, calls
\* the comparison store and the browser's storage item
\* 'comparison-selected-ids' (hasLocalStorage: window.localStorage exists)
VARIABLES selectedPropertyIds, comparisonData, autoSaveEnabled, localStorage, hasLocalStorage
calcVars == <<fn, args, pc, res>>

cacheVars == <<cache, adds, now, rows, events, without, url, error>>

rowVars == <<column, calls>>
storeVars == <<selectedPropertyIds, comparisonData, autoSaveEnabled, localStorage, hasLocalStorage>>
vars == <<calcVars, cacheVars, rowVars, storeVars>>
\* what each part of the program leaves alone
notCalc == <<cacheVars, rowVars, storeVars>>
notCache == <<calcVars, rowVars, storeVars>>
notRow == <<calcVars, cacheVars, storeVars>>
notStore == <<calcVars, cacheVars, rowVars>>

(***************************************************************************)
(* Numbers                                                                 *)
(***************************************************************************)
Abs(x) == IF x < 0 THEN -x ELSE x

Sign(x) == IF x > 0 THEN 1 ELSE IF x < 0 THEN -1 ELSE 0

RECURSIVE GCD(_, _)
GCD(a, b) == IF b = 0 THEN a ELSE GCD(b, a % b)

\* gcd used for cancelling: never 0
Gcd1(a, b) == LET g == GCD(Abs(a), Abs(b)) IN IF g = 0 THEN 1 ELSE g

\* the number n/d, in lowest terms
R(n, d) ==
    IF d = 0 THEN [n |-> Sign(n), d |-> 0]
    ELSE LET g == Gcd1(n, d)
             s == IF d < 0 THEN -1 ELSE 1
         IN  [n |-> s * (n \div g), d |-> s * (d \div g)]

Num(i) == [n |-> i, d |-> 1]

Zero == Num(0)

NaN == [n |-> 0, d |-> 0]

IsNaN(a) == a.n = 0 /\ a.d = 0

IsFinite(a) == a.d # 0

Neg(a) == [n |-> -a.n, d |-> a.d]

\* a + b
Add(a, b) ==
    IF a.d = 0 \/ b.d = 0
    THEN IF IsNaN(a) \/ IsNaN(b) THEN NaN
         ELSE IF a.d = 0 /\ b.d = 0
              THEN (IF a.n = b.n THEN a ELSE NaN)
              ELSE (IF a.d = 0 THEN a ELSE b)
    ELSE LET g == Gcd1(a.d, b.d)
         IN  R(a.n * (b.d \div g) + b.n * (a.d \div g), (a.d \div g) * b.d)

\* a - b
Sub(a, b) == Add(a, Neg(b))

\* a * b; the factors are cancelled crosswise before they are multiplied
Mul(a, b) ==
    LET g1 == Gcd1(a.n, b.d)
        g2 == Gcd1(b.n, a.d)
    IN  R((a.n \div g1) * (b.n \div g2), (a.d \div g2) * (b.d \div g1))

\* 1 / a
Inv(a) == IF a.n < 0 THEN [n |-> -a.d, d |-> -a.n] ELSE [n |-> a.d, d |-> a.n]

\* a / b
Div(a, b) == Mul(a, Inv(b))

\* a < b, a <= b, a > b, a >= b, a === b: every comparison with NaN is false
Lt(a, b) ==
    /\ ~IsNaN(a)
    /\ ~IsNaN(b)
    /\ IF a.d = 0 /\ b.d = 0 THEN a.n < b.n ELSE a.n * b.d < b.n * a.d

Eq(a, b) == ~IsNaN(a) /\ ~IsNaN(b) /\ a = b

Le(a, b) == Lt(a, b) \/ Eq(a, b)

Gt(a, b) == Lt(b, a)

Ge(a, b) == Le(b, a)

\* JavaScript truthiness of a number: 0 and NaN are falsy
Truthy(a) == a.n # 0

\* the integer Math.round(a * k) of a finite a: the nearest integer, a tie
\* going up.  The whole and the fractional part of a are scaled separately.
RoundScaled(a, k) ==
    LET q  == a.n \div a.d
        r  == a.n - q * a.d
        q2 == (r * k) \div a.d
        r2 == r * k - q2 * a.d
    IN  q * k + q2 + (IF 2 * r2 >= a.d THEN 1 ELSE 0)

\* base ^ k for an integer k >= 0
RECURSIVE PowInt(_, _)
PowInt(base, k) == IF k = 0 THEN Num(1) ELSE Mul(base, PowInt(base, k - 1))

\* Math.pow(base, e) for an e that is a whole number >= 0
Pow(base, e) == PowInt(base, e.n)

\* Number.prototype.toFixed(1), as the number the text shows: the nearest
\* tenth of |a|, a tie going up, with the sign of a
ToFixed1(a) ==
    IF a.d = 0 THEN a
    ELSE IF a.n < 0 THEN Neg(R(RoundScaled(Neg(a), 10), 10))
         ELSE R(RoundScaled(a, 10), 10)

(***************************************************************************)
(* Outcomes of a call                                                      *)
(***************************************************************************)
Return(v) == [ok |-> TRUE, value |-> v]

Throw(e) == [ok |-> FALSE, error |-> e]

\* an optional parameter: <<>> when omitted, <<x>> when supplied
Omitted == <<>>

Supplied(x) == <<x>>

\* destructuring default: the default replaces an omitted (undefined) value
OrDefault(opt, dflt) == IF Len(opt) = 0 THEN dflt ELSE opt[1]

(***************************************************************************)
(* Generic calculators (src/lib/financial/calculations.ts).  A function is *)
(* written as a chain of operators, each handing the values the code holds *)
(* in its constants to the next as parameters.                             *)
(***************************************************************************)
\* Math.round(value * 100) / 100
roundCurrency(value) ==
    IF value.d = 0 THEN value ELSE R(RoundScaled(value, 100), 100)

\* Math.round(value * 10) / 10
roundPercentage(value) ==
    IF value.d = 0 THEN value ELSE R(RoundScaled(value, 10), 10)

\* faulty variant: a loan term of zero passes the check
ValidateMortgageParams_ZeroTerm(principal, annualInterestRate, loanTermYears) ==
    IF Lt(principal, Zero) THEN "Principal must be non-negative"
    ELSE IF Lt(annualInterestRate, Zero) THEN "Interest rate must be non-negative"
    ELSE IF Lt(loanTermYears, Zero) THEN "Loan term must be positive"
    ELSE ""

\* faulty variant: a principal of zero is rejected
ValidateMortgageParams_PositivePrincipal(principal, annualInterestRate, loanTermYears) ==
    IF Le(principal, Zero) THEN "Principal must be non-negative"
    ELSE IF Lt(annualInterestRate, Zero) THEN "Interest rate must be non-negative"
    ELSE IF Le(loanTermYears, Zero) THEN "Loan term must be positive"
    ELSE ""

\* the input checks of calculateMortgagePayment, in the order of the code;
\* "" when every check passes
ValidateMortgageParams(principal, annualInterestRate, loanTermYears) ==
    IF Lt(principal, Zero) THEN "Principal must be non-negative"
    ELSE IF Lt(annualInterestRate, Zero) THEN "Interest rate must be non-negative"
    ELSE IF Le(loanTermYears, Zero) THEN "Loan term must be positive"
    ELSE ""

\* PMT formula: A = P * [r(1 + r)^n] / [(1 + r)^n - 1], given factor = (1 + r)^n
PMT(principal, monthlyRate, factor) ==
    Div(Mul(principal, Mul(monthlyRate, factor)), Sub(factor, Num(1)))

\* the totals of an interest-bearing loan, from the rounded monthly payment
AmortizingLoan(principal, numberOfPayments, roundedMonthlyPayment) ==
    LET totalPayments == Mul(roundedMonthlyPayment, numberOfPayments)
        totalInterest == Sub(totalPayments, principal)
    IN  Return([monthlyPayment |-> roundedMonthlyPayment,
                totalPayments  |-> roundCurrency(totalPayments),
                totalInterest  |-> roundCurrency(totalInterest)])

\* faulty variant: the totals are derived from the unrounded payment and
\* everything is rounded at the end
RoundLastLoan(principal, numberOfPayments, monthlyPayment) ==
    Return([monthlyPayment |-> roundCurrency(monthlyPayment),
            totalPayments  |-> roundCurrency(Mul(monthlyPayment, numberOfPayments)),
            totalInterest  |-> roundCurrency(Sub(Mul(monthlyPayment, numberOfPayments),
                                                 principal))])

MonthlyLoan_RoundLast(principal, annualInterestRate, monthlyRate, numberOfPayments) ==
    IF Eq(annualInterestRate, Zero)
    THEN RoundLastLoan(principal, numberOfPayments, Div(principal, numberOfPayments))
    ELSE RoundLastLoan(principal, numberOfPayments,
             PMT(principal, monthlyRate, Pow(Add(Num(1), monthlyRate), numberOfPayments)))

\* faulty variant: at a zero rate the total is recomputed from the rounded
\* monthly payment
MonthlyLoan_RecomputedTotal(principal, annualInterestRate, monthlyRate, numberOfPayments) ==
    IF Eq(annualInterestRate, Zero)
    THEN Return([monthlyPayment |-> roundCurrency(Div(principal, numberOfPayments)),
                 totalPayments  |-> Mul(roundCurrency(Div(principal, numberOfPayments)),
                                        numberOfPayments),
                 totalInterest  |-> Zero])
    ELSE AmortizingLoan(principal, numberOfPayments,
             roundCurrency(PMT(principal, monthlyRate,
                               Pow(Add(Num(1), monthlyRate), numberOfPayments))))

\* faulty variant: at a zero rate the monthly payment is returned unrounded
MonthlyLoan_UnroundedPayment(principal, annualInterestRate, monthlyRate, numberOfPayments) ==
    IF Eq(annualInterestRate, Zero)
    THEN Return([monthlyPayment |-> Div(principal, numberOfPayments),
                 totalPayments  |-> roundCurrency(principal),
                 totalInterest  |-> Zero])
    ELSE AmortizingLoan(principal, numberOfPayments,
             roundCurrency(PMT(principal, monthlyRate,
                               Pow(Add(Num(1), monthlyRate), numberOfPayments))))

\* the 0% interest edge case, else the PMT formula
MonthlyLoan(principal, annualInterestRate, monthlyRate, numberOfPayments) ==
    IF Eq(annualInterestRate, Zero)
    THEN Return([monthlyPayment |-> roundCurrency(Div(principal, numberOfPayments)),
                 totalPayments  |-> roundCurrency(principal),
                 totalInterest  |-> Zero])
    ELSE AmortizingLoan(principal, numberOfPayments,
             roundCurrency(PMT(principal, monthlyRate,
                               Pow(Add(Num(1), monthlyRate), numberOfPayments))))

\* validation, the zero principal edge case, the conversion to monthly values
MortgagePaymentOf(principal, annualInterestRate, loanTermYears) ==
    IF ValidateMortgageParams(principal, annualInterestRate, loanTermYears) # ""
    THEN Throw(ValidateMortgageParams(principal, annualInterestRate, loanTermYears))
    ELSE IF Eq(principal, Zero)
    THEN Return([monthlyPayment |-> Zero, totalPayments |-> Zero, totalInterest |-> Zero])
    ELSE MonthlyLoan(principal, annualInterestRate,
                     Div(annualInterestRate, Num(12)), Mul(loanTermYears, Num(12)))

calculateMortgagePayment(params) ==
    MortgagePaymentOf(params.principal, params.annualInterestRate, params.loanTermYears)

\* the sum of the monthly components and the result record
TotalCostSum(monthlyMortgage, monthlyPropertyTax, monthlyInsurance, hoaMonthly, pmiMonthly, monthlyMaintenance) ==
    LET totalMonthly ==
            Add(Add(Add(Add(Add(monthlyMortgage, monthlyPropertyTax), monthlyInsurance),
                        hoaMonthly), pmiMonthly), monthlyMaintenance)
        totalAnnual == Mul(totalMonthly, Num(12))
    IN  Return([monthlyMortgage    |-> roundCurrency(monthlyMortgage),
                monthlyPropertyTax |-> monthlyPropertyTax,
                monthlyInsurance   |-> monthlyInsurance,
                monthlyHOA         |-> hoaMonthly,
                monthlyPMI         |-> pmiMonthly,
                monthlyMaintenance |-> monthlyMaintenance,
                totalMonthly       |-> roundCurrency(totalMonthly),
                totalAnnual        |-> roundCurrency(totalAnnual)])

\* faulty variant: the components enter the sum unrounded
TotalCostOf_UnroundedComponents(params, mortgageResult) ==
    IF ~mortgageResult.ok THEN mortgageResult
    ELSE TotalCostSum(
             mortgageResult.value.monthlyPayment,
             Div(OrDefault(params.propertyTaxAnnual, Zero), Num(12)),
             Div(OrDefault(params.insuranceAnnual, Zero), Num(12)),
             OrDefault(params.hoaMonthly, Zero),
             OrDefault(params.pmiMonthly, Zero),
             Div(Mul(params.purchasePrice,
                     OrDefault(params.maintenanceRate, R(1, 100))), Num(12)))

\* faulty variant: a supplied maintenanceRate is ignored, 1% is always charged
TotalCostOf_MaintenanceAlwaysCharged(params, mortgageResult) ==
    IF ~mortgageResult.ok THEN mortgageResult
    ELSE TotalCostSum(
             mortgageResult.value.monthlyPayment,
             roundCurrency(Div(OrDefault(params.propertyTaxAnnual, Zero), Num(12))),
             roundCurrency(Div(OrDefault(params.insuranceAnnual, Zero), Num(12))),
             OrDefault(params.hoaMonthly, Zero),
             OrDefault(params.pmiMonthly, Zero),
             roundCurrency(Div(Mul(params.purchasePrice, R(1, 100)), Num(12))))

\* the defaults of the omitted costs and the monthly components; an error
\* thrown by the mortgage calculation is the outcome of the call
TotalCostOf(params, mortgageResult) ==
    IF ~mortgageResult.ok THEN mortgageResult
    ELSE TotalCostSum(
             mortgageResult.value.monthlyPayment,
             roundCurrency(Div(OrDefault(params.propertyTaxAnnual, Zero), Num(12))),
             roundCurrency(Div(OrDefault(params.insuranceAnnual, Zero), Num(12))),
             OrDefault(params.hoaMonthly, Zero),
             OrDefault(params.pmiMonthly, Zero),
             roundCurrency(Div(Mul(params.purchasePrice,
                                   OrDefault(params.maintenanceRate, R(1, 100))), Num(12))))

calculateTotalCost(params) ==
    TotalCostOf(params, calculateMortgagePayment(params.mortgageParams))

\* faulty variant: the thresholds of conventional and ideal are swapped
DTIResultOf_ThresholdsSwapped(frontEndDTI, backEndDTI) ==
    Return([frontEndDTI           |-> roundPercentage(frontEndDTI),
            backEndDTI            |-> roundPercentage(backEndDTI),
            canAffordConventional |-> Le(backEndDTI, Num(36)),
            canAffordFHA          |-> Le(frontEndDTI, Num(31)) /\ Le(backEndDTI, Num(43)),
            canAffordIdeal        |-> Le(backEndDTI, Num(50))])

\* the affordability thresholds and the result record, from the ratios
DTIResultOf(frontEndDTI, backEndDTI) ==
    Return([frontEndDTI           |-> roundPercentage(frontEndDTI),
            backEndDTI            |-> roundPercentage(backEndDTI),
            canAffordConventional |-> Le(backEndDTI, Num(50)),
            canAffordFHA          |-> Le(frontEndDTI, Num(31)) /\ Le(backEndDTI, Num(43)),
            canAffordIdeal        |-> Le(backEndDTI, Num(36))])

\* faulty variant: an income of zero passes the check
DTIOf_ZeroIncome(grossMonthlyIncome, monthlyHousingCost, monthlyOtherDebts) ==
    IF Lt(grossMonthlyIncome, Zero)
    THEN Throw("Gross monthly income must be positive")
    ELSE DTIResultOf(
             Mul(Div(monthlyHousingCost, grossMonthlyIncome), Num(100)),
             Mul(Div(Add(monthlyHousingCost, monthlyOtherDebts), grossMonthlyIncome),
                 Num(100)))

\* the income check and the two ratios
DTIOf(grossMonthlyIncome, monthlyHousingCost, monthlyOtherDebts) ==
    IF Le(grossMonthlyIncome, Zero)
    THEN Throw("Gross monthly income must be positive")
    ELSE DTIResultOf(
             Mul(Div(monthlyHousingCost, grossMonthlyIncome), Num(100)),
             Mul(Div(Add(monthlyHousingCost, monthlyOtherDebts), grossMonthlyIncome),
                 Num(100)))

calculateDTI(params) ==
    DTIOf(params.grossMonthlyIncome, params.monthlyHousingCost, params.monthlyOtherDebts)

(***************************************************************************)
(* Swedish calculators (src/lib/api/properties.ts)                         *)
(***************************************************************************)
\* Math.round(value * 100) / 100
SE_roundCurrency(value) ==
    IF value.d = 0 THEN value ELSE R(RoundScaled(value, 100), 100)

\* Math.round(value * 10) / 10
SE_roundPercentage(value) ==
    IF value.d = 0 THEN value ELSE R(RoundScaled(value, 10), 10)

\* ltv = (principal / purchasePrice) * 100
LtvOf(principal, purchasePrice) == Mul(Div(principal, purchasePrice), Num(100))

\* faulty variant: the tier boundaries are inclusive
LtvTier_Inclusive(ltv) ==
    IF Ge(ltv, Num(70))
    THEN [yearlyPercent |-> 2, rule |-> "LTV > 70% -> 2% yearly", ltv |-> ToFixed1(ltv)]
    ELSE IF Ge(ltv, Num(50))
    THEN [yearlyPercent |-> 1, rule |-> "LTV (50-70%) -> 1% yearly", ltv |-> ToFixed1(ltv)]
    ELSE [yearlyPercent |-> 0, rule |-> "LTV <= 50% -> no requirement", ltv |-> ToFixed1(ltv)]

\* Rule 1: LTV-based amortization.  The reason text is kept as the rule that
\* fired and the LTV figure it prints.
LtvTier(ltv) ==
    IF Gt(ltv, Num(70))
    THEN [yearlyPercent |-> 2, rule |-> "LTV > 70% -> 2% yearly", ltv |-> ToFixed1(ltv)]
    ELSE IF Gt(ltv, Num(50))
    THEN [yearlyPercent |-> 1, rule |-> "LTV (50-70%) -> 1% yearly", ltv |-> ToFixed1(ltv)]
    ELSE [yearlyPercent |-> 0, rule |-> "LTV <= 50% -> no requirement", ltv |-> ToFixed1(ltv)]

\* the debt-to-income figure the surcharge's reason text prints, <<>> when
\* debtToIncome is not above 4.5
SurchargeFor(debtToIncome) ==
    IF Gt(debtToIncome, R(45, 10)) THEN <<ToFixed1(debtToIncome)>> ELSE <<>>

\* Rule 2: additional 1% if total debt > 4.5x gross income.  <<>> when the
\* rule adds nothing.  The guard is JavaScript's
\* params.grossAnnualIncome && params.totalDebt.
DebtSurcharge(grossAnnualIncome, totalDebt) ==
    IF /\ Len(grossAnnualIncome) = 1
       /\ Truthy(grossAnnualIncome[1])
       /\ Len(totalDebt) = 1
       /\ Truthy(totalDebt[1])
    THEN SurchargeFor(Div(totalDebt[1], grossAnnualIncome[1]))
    ELSE <<>>

\* yearlyPercent after both rules
YearlyPercent(tier, surcharge) ==
    tier.yearlyPercent + (IF Len(surcharge) = 1 THEN 1 ELSE 0)

\* faulty variant: the monthly amount leaves out the surcharge
AmorteringskravResult_BaseTierOnly(principal, tier, surcharge) ==
    [monthlyAmortization |->
         SE_roundCurrency(Div(Mul(principal, Div(Num(tier.yearlyPercent), Num(100))),
                              Num(12))),
     yearlyAmortizationPercent |-> YearlyPercent(tier, surcharge),
     reason |-> [rule |-> tier.rule, ltv |-> tier.ltv, surcharge |-> surcharge]]

\* the monthly amount and the result record
AmorteringskravResult(principal, tier, surcharge) ==
    [monthlyAmortization |->
         SE_roundCurrency(Div(Mul(principal,
                                  Div(Num(YearlyPercent(tier, surcharge)), Num(100))),
                              Num(12))),
     yearlyAmortizationPercent |-> YearlyPercent(tier, surcharge),
     reason |-> [rule |-> tier.rule, ltv |-> tier.ltv, surcharge |-> surcharge]]

calculateAmorteringskrav(params) ==
    AmorteringskravResult(params.principal,
                          LtvTier(LtvOf(params.principal, params.purchasePrice)),
                          DebtSurcharge(params.grossAnnualIncome, params.totalDebt))

\* principal = purchasePrice - purchasePrice * (downPaymentPercent / 100)
SE_Principal(purchasePrice, downPaymentPercent) ==
    Sub(purchasePrice, Mul(purchasePrice, Div(downPaymentPercent, Num(100))))

\* faulty variant: the inputs are checked before the LTV cap
SE_ValidateMortgageParams_InputsFirst(ltv, purchasePrice, downPaymentPercent, annualInterestRate, loanTermYears) ==
    IF Le(purchasePrice, Zero) THEN "Purchase price must be positive"
    ELSE IF Lt(downPaymentPercent, Zero) \/ Gt(downPaymentPercent, Num(100))
    THEN "Down payment percent must be between 0 and 100"
    ELSE IF Lt(annualInterestRate, Zero) THEN "Interest rate must be non-negative"
    ELSE IF Le(loanTermYears, Zero) THEN "Loan term must be positive"
    ELSE IF Gt(ltv, Num(85))
    THEN "LTV exceeds 85% bolanetak (loan cap). Minimum down payment is 15%."
    ELSE ""

\* the checks of the Swedish calculateMortgagePayment, in the order of the
\* code: the 85% LTV cap first, then the inputs; "" when every check passes.
\* The LTV figure of the cap's message is left out of the text.
SE_ValidateMortgageParams(ltv, purchasePrice, downPaymentPercent, annualInterestRate, loanTermYears) ==
    IF Gt(ltv, Num(85))
    THEN "LTV exceeds 85% bolanetak (loan cap). Minimum down payment is 15%."
    ELSE IF Le(purchasePrice, Zero) THEN "Purchase price must be positive"
    ELSE IF Lt(downPaymentPercent, Zero) \/ Gt(downPaymentPercent, Num(100))
    THEN "Down payment percent must be between 0 and 100"
    ELSE IF Lt(annualInterestRate, Zero) THEN "Interest rate must be non-negative"
    ELSE IF Le(loanTermYears, Zero) THEN "Loan term must be positive"
    ELSE ""

\* the PMT formula of the interest component, given factor = (1 + r)^n
SE_PMT(principal, monthlyRate, factor) ==
    Div(Mul(principal, Mul(monthlyRate, factor)), Sub(factor, Num(1)))

\* faulty variant: the rate is taken as a percentage
SE_MonthlyInterest_Percent(principal, annualInterestRate, monthlyRate, numPayments) ==
    IF Eq(annualInterestRate, Zero) THEN Zero
    ELSE SE_PMT(principal, Div(monthlyRate, Num(100)),
                Pow(Add(Num(1), Div(monthlyRate, Num(100))), numPayments))

\* the interest component: 0 at a zero rate, else the PMT formula
SE_MonthlyInterest(principal, annualInterestRate, monthlyRate, numPayments) ==
    IF Eq(annualInterestRate, Zero) THEN Zero
    ELSE SE_PMT(principal, monthlyRate, Pow(Add(Num(1), monthlyRate), numPayments))

\* faulty variant: the monthly payment leaves out the mandatory amortization
SE_MortgageResult_InterestOnly(principal, ltv, numPayments, monthlyInterest, amortization) ==
    Return([monthlyPayment      |-> SE_roundCurrency(monthlyInterest),
            monthlyInterest     |-> SE_roundCurrency(monthlyInterest),
            monthlyAmortization |-> amortization.monthlyAmortization,
            amortizationPercent |-> amortization.yearlyAmortizationPercent,
            amortizationReason  |-> amortization.reason,
            totalPayments       |-> SE_roundCurrency(Mul(monthlyInterest, numPayments)),
            totalInterest       |-> SE_roundCurrency(Sub(Mul(monthlyInterest, numPayments),
                                                         principal)),
            ltv                 |-> SE_roundPercentage(ltv)])

\* payment, totals and the result record
SE_MortgageResult(principal, ltv, numPayments, monthlyInterest, amortization) ==
    LET monthlyPayment == Add(monthlyInterest, amortization.monthlyAmortization)
        totalPayments  == Mul(monthlyPayment, numPayments)
        totalInterest  == Sub(totalPayments, principal)
    IN  Return([monthlyPayment      |-> SE_roundCurrency(monthlyPayment),
                monthlyInterest     |-> SE_roundCurrency(monthlyInterest),
                monthlyAmortization |-> amortization.monthlyAmortization,
                amortizationPercent |-> amortization.yearlyAmortizationPercent,
                amortizationReason  |-> amortization.reason,
                totalPayments       |-> SE_roundCurrency(totalPayments),
                totalInterest       |-> SE_roundCurrency(totalInterest),
                ltv                 |-> SE_roundPercentage(ltv)])

\* the checks, then the interest component and the mandatory amortization
SE_MortgageChecked(params, principal, ltv) ==
    IF SE_ValidateMortgageParams(ltv, params.purchasePrice, params.downPaymentPercent,
                                 params.annualInterestRate, params.loanTermYears) # ""
    THEN Throw(SE_ValidateMortgageParams(ltv, params.purchasePrice,
                                         params.downPaymentPercent,
                                         params.annualInterestRate, params.loanTermYears))
    ELSE SE_MortgageResult(
             principal, ltv, Mul(params.loanTermYears, Num(12)),
             SE_MonthlyInterest(principal, params.annualInterestRate,
                                Div(params.annualInterestRate, Num(12)),
                                Mul(params.loanTermYears, Num(12))),
             calculateAmorteringskrav([principal |-> principal,
                                       purchasePrice |-> params.purchasePrice,
                                       grossAnnualIncome |-> Omitted,
                                       totalDebt |-> Omitted]))

\* principal and LTV
SE_MortgageOf(params, principal) ==
    SE_MortgageChecked(params, principal, LtvOf(principal, params.purchasePrice))

SE_calculateMortgagePayment(params) ==
    SE_MortgageOf(params, SE_Principal(params.purchasePrice, params.downPaymentPercent))

\* Maintenance: 1% for villa unless a rate is supplied, 0 for brf
EffectiveMaintenanceRate(propertyType, maintenanceRate) ==
    IF propertyType = "villa"
    THEN (IF Len(maintenanceRate) = 1 THEN maintenanceRate[1] ELSE R(1, 100))
    ELSE Zero

\* the sum of the monthly components and the result record
SE_TotalCostSum(mortgage, monthlyPropertyTax, monthlyInsurance, monthlyBRF, monthlyMaintenance) ==
    LET totalMonthly ==
            Add(Add(Add(Add(mortgage.monthlyPayment, monthlyPropertyTax),
                        monthlyInsurance), monthlyBRF), monthlyMaintenance)
    IN  Return([monthlyMortgage     |-> mortgage.monthlyPayment,
                monthlyInterest     |-> mortgage.monthlyInterest,
                monthlyAmortization |-> mortgage.monthlyAmortization,
                monthlyPropertyTax  |-> monthlyPropertyTax,
                monthlyInsurance    |-> monthlyInsurance,
                monthlyBRF          |-> monthlyBRF,
                monthlyMaintenance  |-> monthlyMaintenance,
                totalMonthly        |-> SE_roundCurrency(totalMonthly),
                totalAnnual         |-> SE_roundCurrency(Mul(totalMonthly, Num(12)))])

\* faulty variant: a failed mortgage calculation counts as a payment of 0
SE_TotalCostOf_FailureSwallowed(params, mortgage) ==
    SE_TotalCostSum(
        IF mortgage.ok THEN mortgage.value
        ELSE [monthlyPayment |-> Zero, monthlyInterest |-> Zero, monthlyAmortization |-> Zero],
        SE_roundCurrency(Div(OrDefault(params.propertyTaxAnnual, Zero), Num(12))),
        SE_roundCurrency(Div(OrDefault(params.insuranceAnnual, Zero), Num(12))),
        OrDefault(params.brfMonthly, Zero),
        SE_roundCurrency(Div(Mul(params.purchasePrice,
                                 EffectiveMaintenanceRate(params.propertyType,
                                                          params.maintenanceRate)),
                             Num(12))))

\* the defaults of the omitted costs and the monthly components; an error
\* thrown by the mortgage calculation is the outcome of the call
SE_TotalCostOf(params, mortgage) ==
    IF ~mortgage.ok THEN mortgage
    ELSE SE_TotalCostSum(
             mortgage.value,
             SE_roundCurrency(Div(OrDefault(params.propertyTaxAnnual, Zero), Num(12))),
             SE_roundCurrency(Div(OrDefault(params.insuranceAnnual, Zero), Num(12))),
             OrDefault(params.brfMonthly, Zero),
             SE_roundCurrency(Div(Mul(params.purchasePrice,
                                      EffectiveMaintenanceRate(params.propertyType,
                                                               params.maintenanceRate)),
                                  Num(12))))

SE_calculateTotalCost(params) ==
    SE_TotalCostOf(params,
        SE_calculateMortgagePayment([purchasePrice      |-> params.purchasePrice,
                                     downPaymentPercent |-> params.downPaymentPercent,
                                     annualInterestRate |-> params.annualInterestRate,
                                     loanTermYears      |-> params.loanTermYears,
                                     propertyType       |-> params.propertyType]))

\* the thresholds and the result record, from the ratios
AffordabilityResultOf(stressTestRate, housingRatio, totalDebtRatio) ==
    Return([housingCostRatio      |-> SE_roundPercentage(housingRatio),
            totalDebtRatio        |-> SE_roundPercentage(totalDebtRatio),
            stressTestRate        |-> stressTestRate,
            canAffordConservative |-> Le(totalDebtRatio, Num(50)),
            canAffordStandard     |-> Le(totalDebtRatio, Num(60)),
            reasoning |-> [stressTestRate |-> stressTestRate,
                           housing        |-> ToFixed1(housingRatio),
                           totalDebt      |-> ToFixed1(totalDebtRatio)]])

\* faulty variant: the housing cost is raised by the stress test rate
AffordabilityOf_StressedHousing(grossMonthlyIncome, monthlyHousingCost, monthlyOtherDebts, stressTestRate) ==
    IF Le(grossMonthlyIncome, Zero)
    THEN Throw("Gross monthly income must be positive")
    ELSE AffordabilityResultOf(
             stressTestRate,
             Mul(Div(Mul(monthlyHousingCost, Add(Num(1), Div(stressTestRate, Num(100)))),
                     grossMonthlyIncome), Num(100)),
             Mul(Div(Add(Mul(monthlyHousingCost,
                             Add(Num(1), Div(stressTestRate, Num(100)))),
                         monthlyOtherDebts), grossMonthlyIncome), Num(100)))

\* the income check and the two ratios
AffordabilityOf(grossMonthlyIncome, monthlyHousingCost, monthlyOtherDebts, stressTestRate) ==
    IF Le(grossMonthlyIncome, Zero)
    THEN Throw("Gross monthly income must be positive")
    ELSE AffordabilityResultOf(
             stressTestRate,
             Mul(Div(monthlyHousingCost, grossMonthlyIncome), Num(100)),
             Mul(Div(Add(monthlyHousingCost, monthlyOtherDebts), grossMonthlyIncome),
                 Num(100)))

calculateAffordability(params) ==
    AffordabilityOf(params.grossMonthlyIncome, params.monthlyHousingCost,
                    params.monthlyOtherDebts, params.stressTestRate)

(***************************************************************************)
(* Inputs                                                                  *)
(***************************************************************************)
\* the longest loan, in monthly payments
MaxPayments == 3

\* the largest loan amount, in hundreds
MaxPrincipal == 3

\* the largest purchase price, in hundreds
MaxPrice == 2

\* loan terms in years: -1/12, 0 and every whole number of months up to the bound
LoanTerms == {R(m, 12) : m \in -1..MaxPayments}

Principals == {Num(-1)} \cup {Num(100 * i) : i \in 0..MaxPrincipal}

\* annual rates of the generic calculator (6/5 is 10% a month, 6 is 50% a month)
Rates == {R(-1, 100), Zero, R(6, 5), Num(6)}

PurchasePrices == {Num(100 * i) : i \in -1..MaxPrice}

\* down payments in percent; the loan-to-value they leave is 100 minus them
\* (29.96 leaves 70.04, which is returned as 70.0)
DownPaymentPercents ==
    {Num(-5), Zero, Num(10), R(149, 10), Num(15), Num(20), R(2996, 100), Num(30), Num(40),
     Num(50), Num(100), Num(105)}

\* annual rates of the Swedish calculator (60 is 5 a month, 120 is 10 a month)
SE_Rates == {Num(-1), Zero, Num(60), Num(120)}

PropertyTypes == {"villa", "brf"}

\* loan amounts handed to calculateAmorteringskrav directly
AmortPrincipals ==
    {Num(-10), Zero, Num(50), Num(51), Num(70), Num(71), Num(100), Num(101), Num(140),
     Num(141)}

AmortPrices == {Num(100 * i) : i \in 0..MaxPrice}

GrossAnnualIncomes == {Omitted, Supplied(Zero), Supplied(Num(100)), Supplied(Num(-100))}

TotalDebts ==
    {Omitted, Supplied(Zero), Supplied(Num(450)), Supplied(Num(451)), Supplied(Num(-451))}

Opt(S) == {Omitted} \cup {Supplied(x) : x \in S}

MaintenanceRates == Opt({Zero, R(1, 100), R(2, 100)})

MonthlyFees == Opt({Zero, R(5001, 200)})

Incomes == {Num(-1), Zero, Num(2500), Num(5000)}

HousingCosts ==
    {Zero, Num(775), Num(776), Num(901), Num(1076), Num(1250), Num(1251), Num(1400),
     Num(1500), Num(1501)}

OtherDebts == {Zero, Num(200), Num(300)}

StressTestRates == {Num(5), Num(7)}

\* the parameter records each function is called with
MortgageInputs ==
    {[principal |-> principal, annualInterestRate |-> rate, loanTermYears |-> term] :
        principal \in Principals, rate \in Rates, term \in LoanTerms}

TotalCostInputs ==
    {[purchasePrice |-> price, mortgageParams |-> mortgage, propertyTaxAnnual |-> tax,
      insuranceAnnual |-> ins, hoaMonthly |-> hoa, pmiMonthly |-> pmi,
      maintenanceRate |-> maint] :
        price \in AmortPrices,
        mortgage \in {m \in MortgageInputs : m.annualInterestRate # Num(6)},
        tax \in Opt({Num(100)}), ins \in Opt({Num(50)}), hoa \in MonthlyFees,
        pmi \in Opt({Num(10)}), maint \in MaintenanceRates \ {Supplied(R(1, 100))}}

DTIInputs ==
    {[grossMonthlyIncome |-> income, monthlyHousingCost |-> housing,
      monthlyOtherDebts |-> other] :
        income \in Incomes, housing \in HousingCosts, other \in OtherDebts}

AmorteringskravInputs ==
    {[principal |-> principal, purchasePrice |-> price, grossAnnualIncome |-> income,
      totalDebt |-> debt] :
        principal \in AmortPrincipals, price \in AmortPrices,
        income \in GrossAnnualIncomes, debt \in TotalDebts}

SE_MortgageInputs ==
    {[purchasePrice |-> price, downPaymentPercent |-> down, annualInterestRate |-> rate,
      loanTermYears |-> term, propertyType |-> type] :
        price \in PurchasePrices, down \in DownPaymentPercents, rate \in SE_Rates,
        term \in LoanTerms, type \in PropertyTypes}

SE_TotalCostInputs ==
    {[purchasePrice |-> price, downPaymentPercent |-> down, annualInterestRate |-> rate,
      loanTermYears |-> term, propertyType |-> type, propertyTaxAnnual |-> tax,
      insuranceAnnual |-> ins, brfMonthly |-> brf, maintenanceRate |-> maint] :
        price \in PurchasePrices, down \in {Num(10), Num(15), Num(50)},
        rate \in {Zero, Num(60)}, term \in LoanTerms, type \in PropertyTypes,
        tax \in Opt({Zero, Num(100)}), ins \in Opt({Num(50)}), brf \in MonthlyFees,
        maint \in MaintenanceRates}

AffordabilityInputs ==
    {[grossMonthlyIncome |-> income, monthlyHousingCost |-> housing,
      monthlyOtherDebts |-> other, stressTestRate |-> stress, totalDebt |-> Omitted,
      grossAnnualIncome |-> Omitted] :
        income \in Incomes, housing \in HousingCosts, other \in OtherDebts,
        stress \in StressTestRates}

(***************************************************************************)
(* The compare screen: handleAddProperty and the realtime subscription of  *)
(* the properties table, which both write the ['properties'] entry of the  *)
(* query cache.  The cache is <<>> while it holds no data (undefined) and  *)
(* <<list>> once it holds a list.  An entry is [id, title]: title is TRUE  *)
(* once the card has its metadata.                                         *)
(***************************************************************************)
\* the most invocations of handleAddProperty
MaxAdds == 2

\* the most rows the properties table ever holds
MaxRows == 2

\* the most realtime events on their way to the client
MaxEvents == 1

\* `temp-${Date.now()}`
TempId(t) == [kind |-> "temp", n |-> t]

\* row.id.toString()
RowId(n) == [kind |-> "row", n |-> n]

\* 1. Show card immediately in the list
AddTempEntry(old, tempId) ==
    <<[id |-> tempId, title |-> FALSE]>> \o OrDefault(old, <<>>)

\* 4. Update card with OG data
FillMetadata(old, tempId) ==
    [k \in 1..Len(OrDefault(old, <<>>)) |->
        IF OrDefault(old, <<>>)[k].id = tempId
        THEN [OrDefault(old, <<>>)[k] EXCEPT !.title = TRUE]
        ELSE OrDefault(old, <<>>)[k]]

\* 7. Replace temp entry with real DB entry
ReplaceTemp(old, tempId, saved) ==
    [k \in 1..Len(OrDefault(old, <<>>)) |->
        IF OrDefault(old, <<>>)[k].id = tempId THEN saved ELSE OrDefault(old, <<>>)[k]]

\* the catch block: the temp entry is filtered out
\* mutant: the catch block drops the newest entry, whatever its id
RemoveTemp_DropsNewest(old, tempId) == IF OrDefault(old, <<>>) = <<>> THEN <<>> ELSE Tail(OrDefault(old, <<>>))

RemoveTemp(old, tempId) ==
    SelectSeq(OrDefault(old, <<>>), LAMBDA p : p.id # tempId)

\* the realtime INSERT handler: the new row goes first unless its id is there
OnInsert(old, n) ==
    IF Len(old) = 1 /\ \E k \in 1..Len(old[1]) : old[1][k].id = RowId(n.id)
    THEN old
    ELSE Supplied(<<[id |-> RowId(n.id), title |-> n.title]>> \o OrDefault(old, <<>>))

\* the realtime UPDATE handler: the entry of the row takes the new fields
OnUpdate(old, n) ==
    IF old = Omitted THEN old
    ELSE Supplied([k \in 1..Len(old[1]) |->
                      IF old[1][k].id = RowId(n.id)
                      THEN [old[1][k] EXCEPT !.title = n.title \/ old[1][k].title]
                      ELSE old[1][k]])

\* the realtime DELETE handler: the entry of the row is filtered out
OnDelete(old, n) ==
    IF old = Omitted THEN old
    ELSE Supplied(SelectSeq(old[1], LAMBDA p : p.id # RowId(n.id)))

\* the handler of a realtime event
OnEvent(old, e) ==
    CASE e.event = "INSERT" -> OnInsert(old, e)
      [] e.event = "UPDATE" -> OnUpdate(old, e)
      [] e.event = "DELETE" -> OnDelete(old, e)

\* the outcome before any calculator was called
NoOutcome == [ok |-> FALSE, error |-> "not called"]

\* the entries of the cache (none while the query has no data)
Entries(c) == OrDefault(c, <<>>)

\* no two entries of the list have the same id
NoDuplicateIds(c) == \A k, l \in 1..Len(Entries(c)) : k # l => Entries(c)[k].id # Entries(c)[l].id

\* every write of the cache by invocation i of handleAddProperty is also made
\* on without[j] for each other invocation j, and every write of a realtime
\* handler on all of them: without[j] is the cache as it would be had
\* invocation j never run
\* the user types or pastes a url into the empty input
TypeUrl ==
    /\ ~url
    /\ \E i \in 1..MaxAdds : adds[i].pc = "idle"
    /\ url' = TRUE
    /\ UNCHANGED <<cache, adds, now, rows, events, without, error, notCache>>

\* handleAddProperty up to its first await: the input is cleared, the temp
\* entry is shown and the metadata and geocode requests are started
StartAdd(i) ==
    /\ adds[i].pc = "idle"
    /\ \A j \in 1..(i - 1) : adds[j].pc # "idle"
    /\ url
    /\ url' = FALSE
    /\ error' = "null"
    /\ now' = now + 1
    /\ adds' = [adds EXCEPT ![i] = [pc |-> "metadata", tempId |-> TempId(now), saved |-> 0, clean |-> NoDuplicateIds(cache)]]
    /\ cache' = Supplied(AddTempEntry(cache, TempId(now)))
    /\ without' = [j \in 1..MaxAdds |-> IF j = i THEN without[j] ELSE Supplied(AddTempEntry(without[j], TempId(now)))]
    /\ UNCHANGED <<rows, events, notCache>>

\* fetchPropertyMetadata resolves (it catches every error and falls back to
\* the host name): the card is populated
MetadataResolved(i) ==
    /\ adds[i].pc = "metadata"
    /\ adds' = [adds EXCEPT ![i].pc = "geocode"]
    /\ cache' = Supplied(FillMetadata(cache, adds[i].tempId))
    /\ without' = [j \in 1..MaxAdds |-> IF j = i THEN without[j] ELSE Supplied(FillMetadata(without[j], adds[i].tempId))]
    /\ UNCHANGED <<now, rows, events, url, error, notCache>>

\* the geocode promise settles (a failure is caught and gives null) and the
\* insert request is sent
GeocodeSettled(i) ==
    /\ adds[i].pc = "geocode"
    /\ adds' = [adds EXCEPT ![i].pc = "insert"]
    /\ UNCHANGED <<cache, without, now, rows, events, url, error, notCache>>

\* the database commits the insert: the row gets the next id and the table's
\* INSERT event is sent to the subscribed client
InsertCommitted(i) ==
    /\ adds[i].pc = "insert"
    /\ Len(events) < MaxEvents
    /\ \E id \in 1..MaxRows :
           /\ rows[id] = "free"
           /\ \A k \in 1..(id - 1) : rows[k] # "free"
           /\ rows' = [rows EXCEPT ![id] = "titled"]
           /\ events' = Append(events, [event |-> "INSERT", id |-> id, title |-> TRUE])
           /\ adds' = [adds EXCEPT ![i].pc = "reply", ![i].saved = id]
    /\ UNCHANGED <<cache, without, now, url, error, notCache>>

\* insertPropertyWithMetadata resolves with the saved row, which replaces
\* the temp entry
InsertResolved(i) ==
    /\ adds[i].pc = "reply"
    /\ adds' = [adds EXCEPT ![i].pc = "done"]
    /\ cache' = Supplied(ReplaceTemp(cache, adds[i].tempId, [id |-> RowId(adds[i].saved), title |-> TRUE]))
    /\ without' = [j \in 1..MaxAdds |-> IF j = i THEN without[j] ELSE Supplied(ReplaceTemp(without[j], adds[i].tempId, [id |-> RowId(adds[i].saved), title |-> TRUE]))]
    /\ UNCHANGED <<now, rows, events, url, error, notCache>>

\* insertPropertyWithMetadata rejects: the catch block removes the temp
\* entry and sets the error
InsertRejected(i) ==
    /\ adds[i].pc = "insert"
    /\ adds' = [adds EXCEPT ![i].pc = "failed"]
    /\ error' = "Failed to add property"
    /\ cache' = Supplied(RemoveTemp(cache, adds[i].tempId))
    /\ without' = [j \in 1..MaxAdds |-> IF j = i THEN without[j] ELSE Supplied(RemoveTemp(without[j], adds[i].tempId))]
    /\ UNCHANGED <<now, rows, events, url, notCache>>

\* another client inserts a row
RemoteInsert ==
    /\ Len(events) < MaxEvents
    /\ \E id \in 1..MaxRows, title \in BOOLEAN :
           /\ rows[id] = "free"
           /\ \A k \in 1..(id - 1) : rows[k] # "free"
           /\ rows' = [rows EXCEPT ![id] = IF title THEN "titled" ELSE "untitled"]
           /\ events' = Append(events, [event |-> "INSERT", id |-> id, title |-> title])
    /\ UNCHANGED <<cache, adds, now, without, url, error, notCache>>

\* a row is updated (enrichment fills in its title)
RemoteUpdate ==
    /\ Len(events) < MaxEvents
    /\ \E id \in 1..MaxRows :
           /\ rows[id] = "untitled"
           /\ rows' = [rows EXCEPT ![id] = "titled"]
           /\ events' = Append(events, [event |-> "UPDATE", id |-> id, title |-> TRUE])
    /\ UNCHANGED <<cache, adds, now, without, url, error, notCache>>

\* a row is deleted
RemoteDelete ==
    /\ Len(events) < MaxEvents
    /\ \E id \in 1..MaxRows :
           /\ rows[id] \in {"titled", "untitled"}
           /\ rows' = [rows EXCEPT ![id] = "deleted"]
           /\ events' = Append(events, [event |-> "DELETE", id |-> id, title |-> FALSE])
    /\ UNCHANGED <<cache, adds, now, without, url, error, notCache>>

\* the channel delivers the oldest event to its handler
Deliver ==
    /\ events # <<>>
    /\ events' = Tail(events)
    /\ cache' = OnEvent(cache, Head(events))
    /\ without' = [j \in 1..MaxAdds |-> OnEvent(without[j], Head(events))]
    /\ UNCHANGED <<adds, now, rows, url, error, notCache>>

(***************************************************************************)
(* The enrichment_status column of a row of the properties table, written  *)
(* by updateProperty and updateFinancialData.  The column is null          *)
(* (Omitted) or a JSON object; a key that is undefined when the object is  *)
(* serialized is absent from the stored object.                            *)
(***************************************************************************)
MaxCalls == 1

Absent == "absent"
OtherKeys == {"enrichmentStatus", "lastEnriched", "currency"}
StatusKeys == OtherKeys \cup {"financialData"}
ValuesOf(k) == CASE k = "enrichmentStatus" -> {Absent, "pending", "enriched"} [] k = "lastEnriched" -> {Absent, "t1"} [] k = "currency" -> {Absent, "SEK"} [] k = "financialData" -> {Absent, "fd1", "fd2"}

\* the JSON object {}: every key absent
EmptyObject == [k \in StatusKeys |-> Absent]

\* updateProperty's enrichment_status for propertyData pd and financialData fd
\* (fd Absent: not passed)
PropertyStatus(pd, fd) == [k \in StatusKeys |-> IF k = "financialData" THEN fd ELSE pd[k]]

\* updateFinancialData's enrichment_status: { ...(existing?.enrichment_status || {}), financialData }
FinancialStatus(existing, financialData) == [OrDefault(existing, EmptyObject) EXCEPT !["financialData"] = financialData]

NoCall == [pc |-> "idle", existing |-> Omitted, financialData |-> Absent]

\* updateProperty with propertyData: one update statement replaces the column
UpdateProperty ==
    /\ \E pd \in [enrichmentStatus : ValuesOf("enrichmentStatus"), lastEnriched : ValuesOf("lastEnriched"), currency : ValuesOf("currency")], fd \in ValuesOf("financialData") :
           column' = Supplied(PropertyStatus(pd, fd))
    /\ UNCHANGED <<calls, notRow>>

\* updateFinancialData is called and sends its select
FD_Call(i) ==
    /\ calls[i].pc = "idle"
    /\ \E financialData \in ValuesOf("financialData") \ {Absent} :
           calls' = [calls EXCEPT ![i] = [pc |-> "select", existing |-> Omitted, financialData |-> financialData]]
    /\ UNCHANGED <<column, notRow>>

\* the select returns the row's enrichment_status
FD_Read(i) ==
    /\ calls[i].pc = "select"
    /\ calls' = [calls EXCEPT ![i].pc = "update", ![i].existing = column]
    /\ UNCHANGED <<column, notRow>>

\* the select fails: its error is not looked at and existing is null
FD_ReadFails(i) ==
    /\ calls[i].pc = "select"
    /\ calls' = [calls EXCEPT ![i].pc = "update", ![i].existing = Omitted]
    /\ UNCHANGED <<column, notRow>>

\* the update writes the object built from what was read
FD_Write(i) ==
    /\ calls[i].pc = "update"
    /\ column' = Supplied(FinancialStatus(calls[i].existing, calls[i].financialData))
    /\ calls' = [calls EXCEPT ![i] = [NoCall EXCEPT !.pc = "returned"]]
    /\ UNCHANGED notRow

\* the update fails and the error is thrown
FD_WriteFails(i) ==
    /\ calls[i].pc = "update"
    /\ calls' = [calls EXCEPT ![i] = [NoCall EXCEPT !.pc = "thrown"]]
    /\ UNCHANGED <<column, notRow>>

(***************************************************************************)
(* The comparison store (zustand) and its localStorage helpers.  The item  *)
(* is null (Omitted) or a JSON text; a JSON text is kept as its structure, *)
(* an array of string literals.                                            *)
(***************************************************************************)
MaxSelected == 2

PropertyIds == {"a", "b"}

\* the lists of at most n property ids
IdLists(n) == UNION {[1..len -> PropertyIds] : len \in 0..n}

\* JSON.stringify of a string array, JSON.parse of such a text
JSONStringify(ids) == [json |-> "array", items |-> [k \in 1..Len(ids) |-> [json |-> "string", chars |-> ids[k]]]]
JSONParse(text) == [k \in 1..Len(text.items) |-> text.items[k].chars]

\* the item after saveSelectedIds(ids): written only where localStorage exists
saveSelectedIds(item, has, ids) == IF has THEN Supplied(JSONStringify(ids)) ELSE item

\* loadSelectedIds(): the parsed item, [] without an item or without storage
loadSelectedIds(item, has) == IF has /\ item # Omitted THEN JSONParse(item[1]) ELSE <<>>

\* the item after an operation that saves ids only if auto-save is on
SaveIfEnabled(ids) == IF autoSaveEnabled THEN saveSelectedIds(localStorage, hasLocalStorage, ids) ELSE localStorage

selectProperty ==
    /\ Len(selectedPropertyIds) < MaxSelected
    /\ \E propertyId \in PropertyIds :
           /\ selectedPropertyIds' = Append(selectedPropertyIds, propertyId)
           /\ localStorage' = SaveIfEnabled(Append(selectedPropertyIds, propertyId))
    /\ UNCHANGED <<comparisonData, autoSaveEnabled, hasLocalStorage, notStore>>

deselectProperty ==
    /\ \E propertyId \in PropertyIds :
           /\ selectedPropertyIds' = SelectSeq(selectedPropertyIds, LAMBDA id : id # propertyId)
           /\ localStorage' = SaveIfEnabled(SelectSeq(selectedPropertyIds, LAMBDA id : id # propertyId))
    /\ UNCHANGED <<comparisonData, autoSaveEnabled, hasLocalStorage, notStore>>

clearSelection ==
    /\ selectedPropertyIds' = <<>>
    /\ comparisonData' = <<>>
    /\ localStorage' = SaveIfEnabled(<<>>)
    /\ UNCHANGED <<autoSaveEnabled, hasLocalStorage, notStore>>

\* comparisonData gets one entry per property passed (entries by property id)
generateComparison ==
    /\ \E properties \in IdLists(MaxSelected) : comparisonData' = properties
    /\ UNCHANGED <<selectedPropertyIds, autoSaveEnabled, localStorage, hasLocalStorage, notStore>>

\* mutant: auto-save is switched on without saving the current selection
enableAutoSave_WithoutSaving ==
    /\ autoSaveEnabled' = TRUE
    /\ UNCHANGED <<selectedPropertyIds, comparisonData, localStorage, hasLocalStorage, notStore>>

enableAutoSave ==
    /\ autoSaveEnabled' = TRUE
    /\ localStorage' = saveSelectedIds(localStorage, hasLocalStorage, selectedPropertyIds)
    /\ UNCHANGED <<selectedPropertyIds, comparisonData, hasLocalStorage, notStore>>

disableAutoSave ==
    /\ autoSaveEnabled' = FALSE
    /\ UNCHANGED <<selectedPropertyIds, comparisonData, localStorage, hasLocalStorage, notStore>>

(***************************************************************************)
(* The parts of the program are checked one at a time: while one runs, the *)
(* others are idle.                                                        *)
(***************************************************************************)
\* no calculator is called
CalcParked ==
    /\ fn = "none"
    /\ args = <<>>
    /\ pc = "parked"
    /\ res = NoOutcome

\* the screen is not mounted
CacheParked ==
    /\ cache = Omitted
    /\ adds = [i \in 1..MaxAdds |-> [pc |-> "idle", tempId |-> TempId(0), saved |-> 0, clean |-> TRUE]]
    /\ now = 0
    /\ rows = [id \in 1..MaxRows |-> "free"]
    /\ events = <<>>
    /\ without = [i \in 1..MaxAdds |-> Omitted]
    /\ url = FALSE
    /\ error = "null"

\* no call is made on the table
RowParked ==
    /\ column = Omitted
    /\ calls = [i \in 1..MaxCalls |-> NoCall]

\* the store is not created
StoreParked ==
    /\ selectedPropertyIds = <<>>
    /\ comparisonData = <<>>
    /\ autoSaveEnabled = FALSE
    /\ localStorage = Omitted
    /\ hasLocalStorage = FALSE

\* the screen before the first invocation: one row in the table, fetched into
\* the cache or not yet
CacheInit ==
    /\ cache \in {Omitted, Supplied(<<[id |-> RowId(1), title |-> TRUE]>>)}
    /\ adds = [i \in 1..MaxAdds |-> [pc |-> "idle", tempId |-> TempId(0), saved |-> 0, clean |-> TRUE]]
    /\ now = 1
    /\ rows = [id \in 1..MaxRows |-> IF id = 1 THEN "titled" ELSE "free"]
    /\ events = <<>>
    /\ without = [i \in 1..MaxAdds |-> cache]
    /\ url = FALSE
    /\ error = "null"
    /\ CalcParked
    /\ RowParked
    /\ StoreParked

CacheNext ==
    \/ TypeUrl
    \/ \E i \in 1..MaxAdds :
           \/ StartAdd(i)
           \/ MetadataResolved(i)
           \/ GeocodeSettled(i)
           \/ InsertCommitted(i)
           \/ InsertResolved(i)
           \/ InsertRejected(i)
    \/ RemoteInsert
    \/ RemoteUpdate
    \/ RemoteDelete
    \/ Deliver

\* a row whose column is null, or as addProperty leaves it: {} without
\* propertyData, the enrichment keys with it
RowInit ==
    /\ column \in {Omitted, Supplied(EmptyObject), Supplied([EmptyObject EXCEPT !["enrichmentStatus"] = "pending"])}
    /\ calls = [i \in 1..MaxCalls |-> NoCall]
    /\ CalcParked
    /\ CacheParked
    /\ StoreParked

RowNext ==
    \/ UpdateProperty
    \/ \E i \in 1..MaxCalls :
           \/ FD_Call(i)
           \/ FD_Read(i)
           \/ FD_ReadFails(i)
           \/ FD_Write(i)
           \/ FD_WriteFails(i)

\* the store as create() builds it: where localStorage exists the item is
\* what an earlier session saved, if any, and the selection is loaded from it
StoreInit ==
    /\ hasLocalStorage \in BOOLEAN
    /\ localStorage \in (IF hasLocalStorage THEN {Omitted} \cup {Supplied(JSONStringify(ids)) : ids \in IdLists(MaxSelected)} ELSE {Omitted})
    /\ selectedPropertyIds = loadSelectedIds(localStorage, hasLocalStorage)
    /\ comparisonData = <<>>
    /\ autoSaveEnabled = FALSE
    /\ CalcParked
    /\ CacheParked
    /\ RowParked

StoreNext ==
    \/ selectProperty
    \/ deselectProperty
    \/ clearSelection
    \/ generateComparison
    \/ enableAutoSave
    \/ disableAutoSave

(***************************************************************************)
(* The caller.  A behaviour is one call: Init chooses the function and its *)
(* parameter record, and the function's action computes the outcome.       *)
(***************************************************************************)
Calling(f, inputs) ==
    /\ fn = f
    /\ args \in inputs
    /\ pc = "call"
    /\ res = NoOutcome
    /\ CacheParked
    /\ RowParked
    /\ StoreParked

Init ==
    \/ Calling("calculateMortgagePayment", MortgageInputs)
    \/ Calling("calculateTotalCost", TotalCostInputs)
    \/ Calling("calculateDTI", DTIInputs)
    \/ Calling("calculateAmorteringskrav", AmorteringskravInputs)
    \/ Calling("SE_calculateMortgagePayment", SE_MortgageInputs)
    \/ Calling("SE_calculateTotalCost", SE_TotalCostInputs)
    \/ Calling("calculateAffordability", AffordabilityInputs)

CallCalculateMortgagePayment ==
    /\ pc = "call"
    /\ fn = "calculateMortgagePayment"
    /\ res' = calculateMortgagePayment(args)
    /\ pc' = "done"
    /\ UNCHANGED <<fn, args, notCalc>>

CallCalculateTotalCost ==
    /\ pc = "call"
    /\ fn = "calculateTotalCost"
    /\ res' = calculateTotalCost(args)
    /\ pc' = "done"
    /\ UNCHANGED <<fn, args, notCalc>>

CallCalculateDTI ==
    /\ pc = "call"
    /\ fn = "calculateDTI"
    /\ res' = calculateDTI(args)
    /\ pc' = "done"
    /\ UNCHANGED <<fn, args, notCalc>>

CallCalculateAmorteringskrav ==
    /\ pc = "call"
    /\ fn = "calculateAmorteringskrav"
    /\ res' = Return(calculateAmorteringskrav(args))
    /\ pc' = "done"
    /\ UNCHANGED <<fn, args, notCalc>>

CallSE_CalculateMortgagePayment ==
    /\ pc = "call"
    /\ fn = "SE_calculateMortgagePayment"
    /\ res' = SE_calculateMortgagePayment(args)
    /\ pc' = "done"
    /\ UNCHANGED <<fn, args, notCalc>>

CallSE_CalculateTotalCost ==
    /\ pc = "call"
    /\ fn = "SE_calculateTotalCost"
    /\ res' = SE_calculateTotalCost(args)
    /\ pc' = "done"
    /\ UNCHANGED <<fn, args, notCalc>>

CallCalculateAffordability ==
    /\ pc = "call"
    /\ fn = "calculateAffordability"
    /\ res' = calculateAffordability(args)
    /\ pc' = "done"
    /\ UNCHANGED <<fn, args, notCalc>>

Next ==
    \/ CallCalculateMortgagePayment
    \/ CallCalculateTotalCost
    \/ CallCalculateDTI
    \/ CallCalculateAmorteringskrav
    \/ CallSE_CalculateMortgagePayment
    \/ CallSE_CalculateTotalCost
    \/ CallCalculateAffordability

Spec == Init /\ [][Next]_vars

\* the compare screen alone
CacheSpec == CacheInit /\ [][CacheNext]_vars

\* the table row alone
RowSpec == RowInit /\ [][RowNext]_vars

\* the comparison store alone
StoreSpec == StoreInit /\ [][StoreNext]_vars

(***************************************************************************)
(* Properties                                                              *)
(***************************************************************************)
\* the call of f has returned or thrown
Done(f) == pc = "done" /\ fn = f

LtvCapError == Throw("LTV exceeds 85% bolanetak (loan cap). Minimum down payment is 15%.")

\* C1: with purchasePrice > 0 and 0 <= downPaymentPercent < 15 the Swedish
\* calculateMortgagePayment throws the bolanetak error and returns no result,
\* also when annualInterestRate < 0 or loanTermYears <= 0 in the same call.
C1_LtvCapCheckedFirst ==
    (/\ Done("SE_calculateMortgagePayment")
     /\ Gt(args.purchasePrice, Zero)
     /\ Ge(args.downPaymentPercent, Zero)
     /\ Lt(args.downPaymentPercent, Num(15)))
    => res = LtvCapError

C1_Witness ==
    /\ Done("SE_calculateMortgagePayment")
    /\ Gt(args.purchasePrice, Zero)
    /\ args.downPaymentPercent = Num(10)
    /\ Lt(args.annualInterestRate, Zero)
    /\ Le(args.loanTermYears, Zero)
    /\ res = LtvCapError

\* C2: the bolanetak error is thrown only when every input is valid by itself
\* (purchasePrice > 0, 0 <= downPaymentPercent <= 100, annualInterestRate >= 0,
\* loanTermYears > 0) and LTV > 85; a downPaymentPercent below 0 or above 100
\* throws the down-payment-range error and a purchasePrice <= 0 throws the
\* purchase-price error.
C2_CapErrorOnlyForValidInputs ==
    Done("SE_calculateMortgagePayment") =>
        /\ res = LtvCapError =>
               /\ Gt(args.purchasePrice, Zero)
               /\ Ge(args.downPaymentPercent, Zero)
               /\ Le(args.downPaymentPercent, Num(100))
               /\ Ge(args.annualInterestRate, Zero)
               /\ Gt(args.loanTermYears, Zero)
               /\ Gt(LtvOf(SE_Principal(args.purchasePrice, args.downPaymentPercent),
                           args.purchasePrice), Num(85))
        /\ (/\ Gt(args.purchasePrice, Zero)
            /\ Lt(args.downPaymentPercent, Zero) \/ Gt(args.downPaymentPercent, Num(100)))
           => res = Throw("Down payment percent must be between 0 and 100")
        /\ Le(args.purchasePrice, Zero) => res = Throw("Purchase price must be positive")

\* C3: the generic calculateMortgagePayment throws exactly when principal < 0
\* or annualInterestRate < 0 or loanTermYears <= 0, and returns a result for
\* every other input.
C3_MortgageFailsExactlyOnInvalid ==
    Done("calculateMortgagePayment") =>
        (~res.ok <=> \/ Lt(args.principal, Zero)
                     \/ Lt(args.annualInterestRate, Zero)
                     \/ Le(args.loanTermYears, Zero))

C3_Witness ==
    /\ Done("calculateMortgagePayment")
    /\ Gt(args.principal, Zero)
    /\ Gt(args.annualInterestRate, Zero)
    /\ Eq(args.loanTermYears, Zero)
    /\ res = Throw("Loan term must be positive")

ZeroMortgage == Return([monthlyPayment |-> Zero, totalPayments |-> Zero, totalInterest |-> Zero])

\* C4 as stated: with principal == 0 the generic calculateMortgagePayment
\* returns {0, 0, 0} whatever annualInterestRate and loanTermYears are.
C4_ZeroPrincipalAnyRateAnyTerm ==
    (Done("calculateMortgagePayment") /\ Eq(args.principal, Zero)) => res = ZeroMortgage

\* C4 amended: with principal == 0, annualInterestRate >= 0 and
\* loanTermYears > 0 the generic calculateMortgagePayment returns {0, 0, 0};
\* a negative rate or a non-positive term throws as for any other principal.
C4_ZeroPrincipalValidRateAndTerm ==
    (/\ Done("calculateMortgagePayment")
     /\ Eq(args.principal, Zero)
     /\ Ge(args.annualInterestRate, Zero)
     /\ Gt(args.loanTermYears, Zero))
    => res = ZeroMortgage

C4_Witness ==
    /\ Done("calculateMortgagePayment")
    /\ Eq(args.principal, Zero)
    /\ Gt(args.annualInterestRate, Zero)
    /\ Gt(args.loanTermYears, Zero)
    /\ res = ZeroMortgage

\* the base tier of a result of calculateAmorteringskrav: the yearly percent
\* less the surcharge the reason text reports
BaseTier(result) == result.yearlyAmortizationPercent - Len(result.reason.surcharge)

\* C5: calculateAmorteringskrav picks the base tier from
\* LTV = principal / purchasePrice * 100: 2% when LTV > 70, 1% when
\* 50 < LTV <= 70 (so at exactly 70), 0% when LTV <= 50 (so at exactly 50),
\* and the reason text names the tier that fired.
C5_LtvTiers ==
    Done("calculateAmorteringskrav") =>
        LET ltv == LtvOf(args.principal, args.purchasePrice)
        IN  /\ Gt(ltv, Num(70)) =>
                   /\ BaseTier(res.value) = 2
                   /\ res.value.reason.rule = "LTV > 70% -> 2% yearly"
            /\ (Gt(ltv, Num(50)) /\ Le(ltv, Num(70))) =>
                   /\ BaseTier(res.value) = 1
                   /\ res.value.reason.rule = "LTV (50-70%) -> 1% yearly"
            /\ Le(ltv, Num(50)) =>
                   /\ BaseTier(res.value) = 0
                   /\ res.value.reason.rule = "LTV <= 50% -> no requirement"

C5_Witness ==
    /\ Done("calculateAmorteringskrav")
    /\ Eq(LtvOf(args.principal, args.purchasePrice), Num(70))
    /\ res.value.yearlyAmortizationPercent = 1
    /\ res.value.reason.rule = "LTV (50-70%) -> 1% yearly"

\* C6: calculateAmorteringskrav adds exactly 1 point to the base tier if and
\* only if grossAnnualIncome and totalDebt are both supplied and
\* totalDebt / grossAnnualIncome > 4.5; otherwise the result is the base tier.
C6_SurchargeIffDebtAboveLimit ==
    Done("calculateAmorteringskrav") =>
        LET base  == LtvTier(LtvOf(args.principal, args.purchasePrice)).yearlyPercent
            above == /\ Len(args.grossAnnualIncome) = 1
                     /\ Len(args.totalDebt) = 1
                     /\ Gt(Div(args.totalDebt[1], args.grossAnnualIncome[1]), R(45, 10))
        IN  res.value.yearlyAmortizationPercent = base + (IF above THEN 1 ELSE 0)

\* the generic monthly payment for the loan of a Swedish call, at the given rate
GenericPaymentFor(params, rate) ==
    calculateMortgagePayment(
        [principal          |-> SE_Principal(params.purchasePrice, params.downPaymentPercent),
         annualInterestRate |-> rate,
         loanTermYears      |-> params.loanTermYears]).value.monthlyPayment

C8_MaintenanceRateOverridesDefault ==
    (Done("SE_calculateTotalCost") /\ res.ok) =>
        LET rate == IF Len(args.maintenanceRate) = 1 THEN args.maintenanceRate[1]
                    ELSE IF args.propertyType = "villa" THEN R(1, 100)
                    ELSE Zero
        IN  res.value.monthlyMaintenance
                = SE_roundCurrency(Div(Mul(args.purchasePrice, rate), Num(12)))

\* C9: in every result of calculateDTI the flags agree with the returned
\* 1-decimal ratios: conventional iff backEndDTI <= 50, FHA iff
\* frontEndDTI <= 31 and backEndDTI <= 43, ideal iff backEndDTI <= 36.
C9_FlagsAgreeWithReturnedRatios ==
    (Done("calculateDTI") /\ res.ok) =>
        /\ res.value.canAffordConventional <=> Le(res.value.backEndDTI, Num(50))
        /\ res.value.canAffordFHA <=> /\ Le(res.value.frontEndDTI, Num(31))
                                      /\ Le(res.value.backEndDTI, Num(43))
        /\ res.value.canAffordIdeal <=> Le(res.value.backEndDTI, Num(36))

\* C10: calculateDTI and calculateAffordability throw, returning no result,
\* whenever grossMonthlyIncome <= 0 and return a result for every
\* grossMonthlyIncome > 0.
C10_IncomeMustBePositive ==
    (Done("calculateDTI") \/ Done("calculateAffordability")) =>
        /\ Le(args.grossMonthlyIncome, Zero) =>
               res = Throw("Gross monthly income must be positive")
        /\ Gt(args.grossMonthlyIncome, Zero) => res.ok

C10_Witness ==
    /\ Done("calculateDTI")
    /\ Eq(args.grossMonthlyIncome, Zero)
    /\ Gt(args.monthlyHousingCost, Zero)
    /\ res = Throw("Gross monthly income must be positive")

\* the payment formula P * r * (1 + r)^n / ((1 + r)^n - 1), unrounded, for
\* the monthly rate r and the number of payments n
AnnuityPayment(P, r, n) ==
    Div(Mul(Mul(P, r), Pow(Add(Num(1), r), n)), Sub(Pow(Add(Num(1), r), n), Num(1)))

\* C11: for principal > 0 and annualInterestRate > 0 the generic
\* calculateMortgagePayment returns the payment formula rounded to 2 decimals
\* as monthlyPayment, that rounded payment times the number of payments as
\* totalPayments, and totalPayments - principal as totalInterest.
C11_PaymentRoundedFirst ==
    (/\ Done("calculateMortgagePayment")
     /\ res.ok
     /\ Gt(args.principal, Zero)
     /\ Gt(args.annualInterestRate, Zero))
    => /\ res.value.monthlyPayment
              = roundCurrency(AnnuityPayment(args.principal,
                                             Div(args.annualInterestRate, Num(12)),
                                             Mul(args.loanTermYears, Num(12))))
       /\ res.value.totalPayments
              = Mul(res.value.monthlyPayment, Mul(args.loanTermYears, Num(12)))
       /\ res.value.totalInterest = Sub(res.value.totalPayments, args.principal)

\* a loan whose total differs from the total of the unrounded payments
C11_Witness ==
    /\ Done("calculateMortgagePayment")
    /\ res.ok
    /\ Gt(args.principal, Zero)
    /\ Gt(args.annualInterestRate, Zero)
    /\ Eq(args.loanTermYears, R(3, 12))
    /\ res.value.totalPayments = Mul(res.value.monthlyPayment, Num(3))
    /\ res.value.totalPayments
           # roundCurrency(Mul(AnnuityPayment(args.principal,
                                              Div(args.annualInterestRate, Num(12)),
                                              Num(3)), Num(3)))

\* the finite number a has at most 2 decimals (scale = 100) or at most
\* 1 decimal (scale = 10)
AtMostDecimals(a, scale) == a.d # 0 /\ scale % a.d = 0

C14_ZeroRateZeroInterest ==
    (Done("SE_calculateMortgagePayment") /\ res.ok /\ Eq(args.annualInterestRate, Zero))
    => /\ res.value.monthlyInterest = Zero
       /\ res.value.totalInterest = Zero
       /\ res.value.monthlyPayment = res.value.monthlyAmortization

\* the result of calculateAmorteringskrav for the loan of a Swedish mortgage
\* call: same principal and purchasePrice, no income and no debt supplied
AmorteringskravFor(params) ==
    calculateAmorteringskrav(
        [principal         |-> SE_Principal(params.purchasePrice, params.downPaymentPercent),
         purchasePrice     |-> params.purchasePrice,
         grossAnnualIncome |-> Omitted,
         totalDebt         |-> Omitted])

\* C15: in every result of the Swedish calculateMortgagePayment the returned
\* monthlyPayment equals the returned monthlyInterest plus the returned
\* monthlyAmortization, and monthlyAmortization is the value
\* calculateAmorteringskrav returns for the same principal and purchasePrice.
C15_PaymentIsInterestPlusAmortization ==
    (Done("SE_calculateMortgagePayment") /\ res.ok)
    => /\ res.value.monthlyPayment
              = Add(res.value.monthlyInterest, res.value.monthlyAmortization)
       /\ res.value.monthlyAmortization = AmorteringskravFor(args).monthlyAmortization

\* a loan with interest that is not a whole number of cents and with
\* mandatory amortization
C15_Witness ==
    /\ Done("SE_calculateMortgagePayment")
    /\ res.ok
    /\ Gt(args.annualInterestRate, Zero)
    /\ Gt(res.value.monthlyAmortization, Zero)
    /\ ~AtMostDecimals(SE_MonthlyInterest(
                           SE_Principal(args.purchasePrice, args.downPaymentPercent),
                           args.annualInterestRate,
                           Div(args.annualInterestRate, Num(12)),
                           Mul(args.loanTermYears, Num(12))), 100)
    /\ res.value.monthlyPayment
           = Add(res.value.monthlyInterest, res.value.monthlyAmortization)

\* the monthly payment the generic mortgage calculator returns for the
\* mortgage parameters of a total-cost call
MortgagePaymentFor(params) ==
    calculateMortgagePayment(params.mortgageParams).value.monthlyPayment

\* the unrounded monthly share of the yearly property tax, of the yearly
\* insurance and of the yearly maintenance of a generic total-cost call
MonthlyTaxOf(params) == Div(OrDefault(params.propertyTaxAnnual, Zero), Num(12))

MonthlyInsuranceOf(params) == Div(OrDefault(params.insuranceAnnual, Zero), Num(12))

MonthlyMaintenanceOf(params) ==
    Div(Mul(params.purchasePrice, OrDefault(params.maintenanceRate, R(1, 100))), Num(12))

MoneyFields(f) ==
    CASE f = "calculateMortgagePayment" -> {"monthlyPayment", "totalPayments", "totalInterest"}
      [] f = "calculateTotalCost" ->
             {"monthlyMortgage", "monthlyPropertyTax", "monthlyInsurance", "monthlyHOA",
              "monthlyPMI", "monthlyMaintenance", "totalMonthly", "totalAnnual"}
      [] f = "calculateAmorteringskrav" -> {"monthlyAmortization"}
      [] f = "SE_calculateMortgagePayment" ->
             {"monthlyPayment", "monthlyInterest", "monthlyAmortization", "totalPayments",
              "totalInterest"}
      [] f = "SE_calculateTotalCost" ->
             {"monthlyMortgage", "monthlyInterest", "monthlyAmortization",
              "monthlyPropertyTax", "monthlyInsurance", "monthlyBRF", "monthlyMaintenance",
              "totalMonthly", "totalAnnual"}
      [] OTHER -> {}

RatioFields(f) ==
    CASE f = "calculateDTI" -> {"frontEndDTI", "backEndDTI"}
      [] f = "SE_calculateMortgagePayment" -> {"ltv"}
      [] f = "calculateAffordability" -> {"housingCostRatio", "totalDebtRatio"}
      [] OTHER -> {}

\* C17: every monetary field of every result record has at most 2 decimals
\* and every ratio field (frontEndDTI, backEndDTI, housingCostRatio,
\* totalDebtRatio, ltv) at most 1 decimal, whatever the inputs, the
\* pass-through fees hoaMonthly, pmiMonthly and brfMonthly included.
C17_ResultsAreRounded ==
    (pc = "done" /\ res.ok)
    => /\ \A field \in MoneyFields(fn) : AtMostDecimals(res.value[field], 100)
       /\ \A field \in RatioFields(fn) : AtMostDecimals(res.value[field], 10)

\* C18: in every result of calculateTotalCost, generic and Swedish, the
\* returned totalAnnual equals the returned totalMonthly times 12, rounded to
\* 2 decimals.
C18_AnnualIsTwelveMonthly ==
    ((Done("calculateTotalCost") \/ Done("SE_calculateTotalCost")) /\ res.ok)
    => res.value.totalAnnual = roundCurrency(Mul(res.value.totalMonthly, Num(12)))

\* the outcome of the Swedish mortgage calculator for the mortgage parameters
\* of a Swedish total-cost call
SE_MortgageFor(params) ==
    SE_calculateMortgagePayment([purchasePrice      |-> params.purchasePrice,
                                 downPaymentPercent |-> params.downPaymentPercent,
                                 annualInterestRate |-> params.annualInterestRate,
                                 loanTermYears      |-> params.loanTermYears,
                                 propertyType       |-> params.propertyType])

\* an optional cost that is omitted or supplied as 0
ZeroOrOmitted(opt) == OrDefault(opt, Zero) = Zero

\* a total-cost call, generic or Swedish, that has returned and in which tax,
\* insurance and the monthly fees are zero or omitted
NoExtras ==
    /\ res.ok
    /\ \/ /\ Done("calculateTotalCost")
          /\ ZeroOrOmitted(args.hoaMonthly)
          /\ ZeroOrOmitted(args.pmiMonthly)
       \/ /\ Done("SE_calculateTotalCost")
          /\ ZeroOrOmitted(args.brfMonthly)
    /\ ZeroOrOmitted(args.propertyTaxAnnual)
    /\ ZeroOrOmitted(args.insuranceAnnual)

\* the monthly payment of the mortgage calculator of the same variant for the
\* mortgage parameters of the call
SameMortgagePayment ==
    IF fn = "calculateTotalCost" THEN MortgagePaymentFor(args)
    ELSE SE_MortgageFor(args).value.monthlyPayment

C20_MortgageFailurePropagates ==
    /\ (Done("calculateTotalCost") /\ ~calculateMortgagePayment(args.mortgageParams).ok)
       => res = calculateMortgagePayment(args.mortgageParams)
    /\ (Done("SE_calculateTotalCost") /\ ~SE_MortgageFor(args).ok)
       => res = SE_MortgageFor(args)

\* a Swedish total-cost call with 10% down and otherwise valid inputs
C20_Witness ==
    /\ Done("SE_calculateTotalCost")
    /\ Gt(args.purchasePrice, Zero)
    /\ args.downPaymentPercent = Num(10)
    /\ Gt(args.loanTermYears, Zero)
    /\ args.brfMonthly = Supplied(Zero)
    /\ SE_MortgageFor(args) = LtvCapError
    /\ res = LtvCapError

\* C21: in every result of calculateAffordability canAffordConservative is
\* true iff the returned totalDebtRatio <= 50 and canAffordStandard is true
\* iff the returned totalDebtRatio <= 60, the returned totalDebtRatio being
\* (monthlyHousingCost + monthlyOtherDebts) / grossMonthlyIncome * 100 rounded
\* to 1 decimal.
C21_SwedishFlagsAgreeWithReturnedRatio ==
    (Done("calculateAffordability") /\ res.ok)
    => /\ res.value.totalDebtRatio
              = SE_roundPercentage(Mul(Div(Add(args.monthlyHousingCost,
                                               args.monthlyOtherDebts),
                                           args.grossMonthlyIncome), Num(100)))
       /\ res.value.canAffordConservative <=> Le(res.value.totalDebtRatio, Num(50))
       /\ res.value.canAffordStandard <=> Le(res.value.totalDebtRatio, Num(60))

\* the outcome of calculateAffordability for the same parameters at another
\* stress test rate
AtStressTestRate(params, rate) ==
    calculateAffordability([params EXCEPT !.stressTestRate = rate])

\* C22: the stressTestRate of calculateAffordability is informational only:
\* a call that differs only in stressTestRate returns the same
\* housingCostRatio, totalDebtRatio, canAffordConservative and
\* canAffordStandard (or throws the same error); only the echoed
\* stressTestRate and the reasoning text differ.
C22_StressTestRateIsInformational ==
    Done("calculateAffordability")
    => \A rate \in StressTestRates :
           IF res.ok
           THEN /\ AtStressTestRate(args, rate).ok
                /\ \A field \in {"housingCostRatio", "totalDebtRatio",
                                 "canAffordConservative", "canAffordStandard"} :
                       AtStressTestRate(args, rate).value[field] = res.value[field]
                /\ AtStressTestRate(args, rate).value.stressTestRate = rate
                /\ res.value.stressTestRate = args.stressTestRate
           ELSE AtStressTestRate(args, rate) = res

\* a call at 5% whose housing cost is non-zero and whose result at 7% is
\* another record with the same ratios and flags
C22_Witness ==
    /\ Done("calculateAffordability")
    /\ res.ok
    /\ args.stressTestRate = Num(5)
    /\ Gt(args.monthlyHousingCost, Zero)
    /\ AtStressTestRate(args, Num(7)) # res
    /\ AtStressTestRate(args, Num(7)).value.totalDebtRatio = res.value.totalDebtRatio
    /\ AtStressTestRate(args, Num(7)).value.canAffordStandard = res.value.canAffordStandard

\* C24: for all inputs the yearlyAmortizationPercent calculateAmorteringskrav
\* returns is one of 0, 1, 2 and 3, and monthlyAmortization equals
\* principal * yearlyAmortizationPercent / 100 / 12 rounded to 2 decimals.
C24_YearlyPercentAndMonthlyAmount ==
    Done("calculateAmorteringskrav")
    => /\ res.value.yearlyAmortizationPercent \in 0..3
       /\ res.value.monthlyAmortization
              = SE_roundCurrency(
                    Div(Mul(args.principal,
                            Div(Num(res.value.yearlyAmortizationPercent), Num(100))),
                        Num(12)))

\* the highest percent: 71 lent on 100 with debt above 4.5 times the income,
\* 0.1775 a month returned as 0.18
C24_Witness ==
    /\ Done("calculateAmorteringskrav")
    /\ args.principal = Num(71)
    /\ args.purchasePrice = Num(100)
    /\ res.value.yearlyAmortizationPercent = 3
    /\ res.value.monthlyAmortization = R(18, 100)

\* C25: in every result of the Swedish calculateMortgagePayment the returned
\* amortizationPercent is the tier of the returned ltv (2 if ltv > 70, 1 if
\* 50 < ltv <= 70, 0 if ltv <= 50) and never includes the debt-to-income
\* surcharge.
C25_PercentIsTierOfReturnedLtv ==
    (Done("SE_calculateMortgagePayment") /\ res.ok)
    => /\ res.value.amortizationPercent
              = (IF Gt(res.value.ltv, Num(70)) THEN 2
                 ELSE IF Gt(res.value.ltv, Num(50)) THEN 1
                 ELSE 0)
       /\ res.value.amortizationReason.surcharge = <<>>

C27_NoDuplicateIdsAfterAdd ==
    \A i \in 1..MaxAdds :
        (adds[i].pc = "done" /\ adds[i].clean) => NoDuplicateIds(cache)

\* the cache has no entry with the temp id of invocation i
NoTempEntry(i) == \A k \in 1..Len(Entries(cache)) : Entries(cache)[k].id # adds[i].tempId

KeyOf(c, k) == OrDefault(c, EmptyObject)[k]

\* C29: the write of updateFinancialData changes only the financialData key
\* of enrichment_status: enrichmentStatus, lastEnriched and currency keep the
\* value that was most recently written to the row, also when another writer
\* has updated the row between the call's read and its write and when the
\* call's read failed.
C29_OnlyFinancialDataChanges ==
    [][\A i \in 1..MaxCalls :
           (calls[i].pc = "update" /\ calls'[i].pc = "returned")
               => \A k \in OtherKeys : KeyOf(column', k) = KeyOf(column, k)]_vars

(***************************************************************************)
(* The comparison store.                                                   *)
(***************************************************************************)

\* the item 'comparison-selected-ids' holds exactly the ids
Persisted(item, ids) == item # Omitted /\ JSONParse(item[1]) = ids

====
